---------------------------- MODULE Spec2Model ----------------------------
(***************************************************************************)
(* Bookworm: a fixed-size-page store (Pager, src/src/pager.rs) over a      *)
(* seekable byte sink, and the compacting facade (Bookworm) that composes  *)
(* a primary Pager with a swap Pager to delete a page in the middle.       *)
(*                                                                         *)
(* The sink is the one every test of the repository builds: a              *)
(* Cursor<Vec<u8>> behind Rc<RefCell<..>>.  Its seek(Start(n)) always      *)
(* succeeds, its write pads the vector with zero bytes up to the write     *)
(* position and grows it, and its read_exact fails exactly when fewer      *)
(* bytes than asked for remain.                                            *)
(*                                                                         *)
(* A Pager is the record [data, pages_count]: the bytes of its sink and    *)
(* its in-memory counter.  Every operation of pager.rs is an operator      *)
(* from a Pager to the Pager after the call and the call's result; the     *)
(* actions apply them to the two stores of the facade.                     *)
(***************************************************************************)
EXTENDS Integers, Sequences, FiniteSets, TLC

\* ---------------------------------------------------------------- bounds
MaxPages == 3       \* appends are offered while pages_count < MaxPages
MaxPageSize == 2    \* a store is built with page_size in 1..MaxPageSize
UsizeBits == 8      \* width of the modelled usize
MaxNones == 2       \* next() is called until it has returned None this often
MaxSharedPages == 1 \* appends offered to the owners of a shared sink

Usize == 2 ^ UsizeBits
UsizeMax == Usize - 1
IsizeMax == (Usize \div 2) - 1      \* the largest length a Vec<u8> can have

PageSizes == 1..MaxPageSize
Indices == 0..MaxPages              \* page arguments, one past the last slot

\* ------------------------------------------------------- results, errors
\* BookwormError carries only a message; the kinds are its messages.
PageNotFound == "Page doesn't exist"
PageTooLarge == "Could not write data to page: data is bigger than page"
ReadFailure == "Could not read page"
WriteFailure == "Could not write page"
DecodeFailure == "Could not parse data"
OK == "Ok"
Panic == "panic"

Ok(v) == [kind |-> OK, val |-> v]
Err(msg) == [kind |-> msg, val |-> <<>>]
Unit == <<>>

\* ------------------------------------------------------------ byte sinks
Zeros(n) == [k \in 1..n |-> 0]
Fill(n, b) == [k \in 1..n |-> b]

\* Cursor<Vec<u8>>::write_all(bytes) with the cursor at byte offset off: an
\* empty buffer makes no write call; otherwise the vector is padded with zero
\* bytes up to off, bytes overwrite from there and the vector grows as needed.
WriteAt(data, off, bytes) ==
  IF Len(bytes) = 0 THEN data
  ELSE LET newLen == IF Len(data) > off + Len(bytes) THEN Len(data)
                     ELSE off + Len(bytes)
       IN [k \in 1..newLen |->
             IF k > off /\ k <= off + Len(bytes) THEN bytes[k - off]
             ELSE IF k <= Len(data) THEN data[k]
             ELSE 0]

\* Cursor::read_exact(buf) with the cursor at byte offset off and
\* buf.len() = n: the n bytes there, or an error when fewer remain.
ReadExactAt(data, off, n) ==
  IF off + n <= Len(data)
  THEN Ok(SubSeq(data, off + 1, off + n))
  ELSE Err(ReadFailure)

\* ------------------------------------------------------------ record codec
\* bincode of the tests' record  struct TestData { count: u8, signed: bool }:
\* one byte for count, one byte 0 or 1 for the bool.
TestData(c, s) == [count |-> c, signed |-> s]

serialize(v) == << v.count, IF v.signed THEN 1 ELSE 0 >>

\* bincode::deserialize reads the two fields from the front of the buffer and
\* ignores what follows; it fails on a buffer that is too short and on a bool
\* byte other than 0 or 1.
deserialize(buf) ==
  IF Len(buf) < 2 THEN Err(DecodeFailure)
  ELSE IF buf[2] \notin {0, 1} THEN Err(DecodeFailure)
  ELSE Ok(TestData(buf[1], buf[2] = 1))

\* ------------------------------------------------------------------ Pager
\* A variant of Pager::new that takes the stream's length in bytes as the count.
Pager_newCountsBytes(ps, data) == [data |-> data, pages_count |-> Len(data)]

\* Pager::new: the count is the stream's length divided by the page size.
Pager_new(ps, data) == [data |-> data, pages_count |-> Len(data) \div ps]

\* A variant of get_raw_page whose bounds check lets page = pages_count pass.
get_raw_pageInclusive(ps, p, page) ==
  IF page > p.pages_count THEN Err(PageNotFound)
  ELSE ReadExactAt(p.data, ps * page, ps)

get_raw_page(ps, p, page) ==
  IF page >= p.pages_count THEN Err(PageNotFound)
  ELSE ReadExactAt(p.data, ps * page, ps)

get_page(ps, p, page) ==
  LET raw == get_raw_page(ps, p, page)
  IN IF raw.kind # OK THEN raw ELSE deserialize(raw.val)

\* Variants of write_raw_page with one of its steps left out.
write_raw_pageUnchecked(ps, p, page, data) ==
  IF Len(data) > ps THEN [p |-> p, res |-> Err(PageTooLarge)]
  ELSE LET page_offset == ps * page
           remaining_space == ps - Len(data)
           d1 == WriteAt(p.data, page_offset, data)
           d2 == WriteAt(d1, page_offset + Len(data), Zeros(remaining_space))
       IN [p |-> [p EXCEPT !.data = d2], res |-> Ok(Unit)]

write_raw_pageNoSizeCheck(ps, p, page, data) ==
  IF page >= p.pages_count THEN [p |-> p, res |-> Err(PageNotFound)]
  ELSE LET page_offset == ps * page
           remaining_space == IF Len(data) > ps THEN 0 ELSE ps - Len(data)
           d1 == WriteAt(p.data, page_offset, data)
           d2 == WriteAt(d1, page_offset + Len(data), Zeros(remaining_space))
       IN [p |-> [p EXCEPT !.data = d2], res |-> Ok(Unit)]

write_raw_pageNoPad(ps, p, page, data) ==
  IF page >= p.pages_count THEN [p |-> p, res |-> Err(PageNotFound)]
  ELSE IF Len(data) > ps THEN [p |-> p, res |-> Err(PageTooLarge)]
  ELSE [p |-> [p EXCEPT !.data = WriteAt(p.data, ps * page, data)],
        res |-> Ok(Unit)]

write_raw_page(ps, p, page, data) ==
  IF page >= p.pages_count THEN [p |-> p, res |-> Err(PageNotFound)]
  ELSE IF Len(data) > ps THEN [p |-> p, res |-> Err(PageTooLarge)]
  ELSE LET page_offset == ps * page
           remaining_space == ps - Len(data)
           d1 == WriteAt(p.data, page_offset, data)
           d2 == WriteAt(d1, page_offset + Len(data), Zeros(remaining_space))
       IN [p |-> [p EXCEPT !.data = d2], res |-> Ok(Unit)]

write_page(ps, p, page, v) ==
  IF page >= p.pages_count THEN [p |-> p, res |-> Err(PageNotFound)]
  ELSE LET serialized == serialize(v)
       IN IF Len(serialized) > ps THEN [p |-> p, res |-> Err(PageTooLarge)]
          ELSE LET w == write_raw_page(ps, p, page, serialized)
               IN IF w.res.kind # OK
                  THEN [p |-> w.p, res |-> Err(WriteFailure)]
                  ELSE w

\* A variant of push_raw that writes at the index of the last page instead of
\* the new one.
push_rawOverLast(ps, p, data) ==
  LET p1 == [p EXCEPT !.pages_count = (@ + 1) % Usize]
      page == IF p.pages_count = 0 THEN 0 ELSE p.pages_count - 1
  IN write_raw_page(ps, p1, page, data)

push_raw(ps, p, data) ==
  LET p1 == [p EXCEPT !.pages_count = (@ + 1) % Usize]
  IN write_raw_page(ps, p1, p1.pages_count - 1, data)

push(ps, p, v) ==
  LET p1 == [p EXCEPT !.pages_count = (@ + 1) % Usize]
  IN write_page(ps, p1, p1.pages_count - 1, v)

\* pop: `self.pages_count -= 1` overflows at 0.  A debug build panics on the
\* subtraction; a release build wraps to usize::MAX, the offset wraps too, and
\* the Cursor's write of page_size bytes there asks the Vec for more than
\* isize::MAX bytes, which panics.
pop(ps, p, build) ==
  IF p.pages_count = 0 /\ build = "debug" THEN [p |-> p, res |-> Err(Panic)]
  ELSE LET n == (p.pages_count - 1) % Usize
           page_offset == (n * ps) % Usize
           p1 == [p EXCEPT !.pages_count = n]
       IN IF page_offset + ps > IsizeMax THEN [p |-> p1, res |-> Err(Panic)]
          ELSE [p |-> [p1 EXCEPT !.data = WriteAt(p.data, page_offset, Zeros(ps))],
                res |-> Ok(Unit)]

\* A variant of clear that leaves the count as it is.
clearKeepsCount(p) == p

clear(p) == [p EXCEPT !.pages_count = 0]

\* ---------------------------------------------------------- iteration steps
\* One call of next() gives item = << v >> for Some(v) and << >> for None,
\* and the iterator's position after the call.

\* Pager::raw_iter / Pager::iter: a borrowing iterator starts at a page index.
raw_iter(starting_page) == starting_page

\* A variant of RawPagerIter::next that moves on by two pages.
RawPagerIter_nextSkipsOne(ps, p, curr_pos) ==
  LET page_data == get_raw_page(ps, p, curr_pos)
  IN IF page_data.kind = OK
     THEN [item |-> << page_data.val >>, pos |-> curr_pos + 2]
     ELSE [item |-> << >>, pos |-> curr_pos]

\* A variant of RawPagerIter::next that reads the sink without looking at
\* pages_count, as the consuming iterators do.
RawPagerIter_nextUncounted(ps, p, curr_pos) ==
  LET page_data == ReadExactAt(p.data, ps * curr_pos, ps)
  IN IF page_data.kind = OK
     THEN [item |-> << page_data.val >>, pos |-> curr_pos + 1]
     ELSE [item |-> << >>, pos |-> curr_pos]

\* RawPagerIter::next: get_raw_page(curr_pos); the position moves on only
\* when a page was read.
RawPagerIter_next(ps, p, curr_pos) ==
  LET page_data == get_raw_page(ps, p, curr_pos)
  IN IF page_data.kind = OK
     THEN [item |-> << page_data.val >>, pos |-> curr_pos + 1]
     ELSE [item |-> << >>, pos |-> curr_pos]

\* PagerIter::next: get_page(curr_pos), likewise.
PagerIter_next(ps, p, curr_pos) ==
  LET page_data == get_page(ps, p, curr_pos)
  IN IF page_data.kind = OK
     THEN [item |-> << page_data.val >>, pos |-> curr_pos + 1]
     ELSE [item |-> << >>, pos |-> curr_pos]

\* Pager::into_raw_iterator / Pager::into_iterator: the sink is sought to the
\* byte offset of the starting page; the iterator keeps the sink and the page
\* size, and not the page count.
into_raw_iterator(ps, starting_page) == ps * starting_page

\* RawPagerIterator::next: read_exact of one page at the sink's position.  A
\* read that succeeds moves the position by one page; a short read leaves
\* the cursor at the end of the data.
RawPagerIterator_next(ps, data, pos) ==
  LET buf == ReadExactAt(data, pos, ps)
  IN IF buf.kind = OK
     THEN [item |-> << buf.val >>, pos |-> pos + ps]
     ELSE [item |-> << >>, pos |-> Len(data)]

\* PagerIterator::next: the same read, then the page is decoded; a page that
\* does not decode gives None, the position having moved past it.
PagerIterator_next(ps, data, pos) ==
  LET buf == ReadExactAt(data, pos, ps)
  IN IF buf.kind # OK THEN [item |-> << >>, pos |-> Len(data)]
     ELSE LET deserialized == deserialize(buf.val)
          IN [item |-> IF deserialized.kind = OK THEN << deserialized.val >>
                       ELSE << >>,
              pos |-> pos + ps]

Borrowing == { "raw_iter", "iter" }
Consuming == { "into_raw_iterator", "into_iterator" }

\* next() of an iterator of the given kind over the store p.
Iterator_next(kind, ps, p, pos) ==
  CASE kind = "raw_iter" -> RawPagerIter_next(ps, p, pos)
    [] kind = "iter" -> PagerIter_next(ps, p, pos)
    [] kind = "into_raw_iterator" -> RawPagerIterator_next(ps, p.data, pos)
    [] kind = "into_iterator" -> PagerIterator_next(ps, p.data, pos)

\* The items a for loop over the iterator receives: those up to the first
\* None.
RECURSIVE Collect(_, _, _, _)
Collect(kind, ps, p, pos) ==
  LET n == Iterator_next(kind, ps, p, pos)
  IN IF n.item = << >> THEN << >>
     ELSE n.item \o Collect(kind, ps, p, n.pos)


\* --------------------------------------------------------------- Bookworm
\* The facade owns two Pagers over two separate sinks.  Its get, write, push
\* and pop are the primary Pager's; delete(page) works in three phases.

\* Phase 1: for page in pager.raw_iter(from): swap.push_raw(&page)?
\* RawPagerIter::next yields get_raw_page(curr_pos) and advances, and ends at
\* the first page that cannot be read.
RECURSIVE DrainTail(_, _, _, _)
DrainTail(ps, p, s, curr_pos) ==
  LET page == get_raw_page(ps, p, curr_pos)
  IN IF page.kind # OK THEN [swap |-> s, res |-> Ok(Unit)]
     ELSE LET w == push_raw(ps, s, page.val)
          IN IF w.res.kind # OK THEN [swap |-> w.p, res |-> w.res]
             ELSE DrainTail(ps, p, w.p, curr_pos + 1)

\* Phase 2: for (i, page) in swap.raw_iter(0).enumerate():
\*              pager.write_raw_page(index + i, &page)?
RECURSIVE RestoreTail(_, _, _, _, _)
RestoreTail(ps, p, s, index, i) ==
  LET page == get_raw_page(ps, s, i)
  IN IF page.kind # OK THEN [pager |-> p, res |-> Ok(Unit)]
     ELSE LET w == write_raw_page(ps, p, index + i, page.val)
          IN IF w.res.kind # OK THEN [pager |-> w.p, res |-> w.res]
             ELSE RestoreTail(ps, w.p, s, index, i + 1)

\* Phase 3: the primary drops its last slot (Pager::pop), then swap.clear().
\* An error of any phase is returned at once, the later phases not run.
delete(ps, p, s, index, build) ==
  LET drained == DrainTail(ps, p, s, index + 1)
  IN IF drained.res.kind # OK
     THEN [pager |-> p, swap |-> drained.swap, res |-> drained.res]
     ELSE LET restored == RestoreTail(ps, p, drained.swap, index, 0)
          IN IF restored.res.kind # OK
             THEN [pager |-> restored.pager, swap |-> drained.swap,
                   res |-> restored.res]
             ELSE LET shrunk == pop(ps, restored.pager, build)
                  IN IF shrunk.res.kind # OK
                     THEN [pager |-> shrunk.p, swap |-> drained.swap,
                           res |-> shrunk.res]
                     ELSE [pager |-> shrunk.p, swap |-> clear(drained.swap),
                           res |-> Ok(Unit)]

\* ------------------------------------------------------------------ state
VARIABLES
  page_size,   \* the page size both stores were built with
  pager,       \* the primary store
  swap,        \* the swap store
  panicked,    \* the process has panicked; no call follows
  last,        \* the latest call: its name, arguments, result, the primary
               \* store as it was when the call was made, whether the
               \* call before it was a delete that succeeded, and the
               \* records pushed so far while nothing but pushes that
               \* succeeded has changed the store
  it,          \* the iterator in use, if any, and what it has returned
  del,         \* the delete in progress, if any, taken step by step
  cell         \* the RefCell around the primary sink: the mutable borrows
               \* held, the sink's position, the call that is running on
               \* it, and a second store built over the same sink

vars == << page_size, pager, swap, panicked, last, it, del, cell >>

\* ----------------------------------------------------------------- inputs
\* Raw payloads: empty, one byte, a full page, one byte more than a page.
RawPayloads(ps) == { <<>>, <<7>>, Fill(ps, 7), Fill(ps + 1, 7) }

\* Records, as the tests build them.
TestValues == { TestData(10, TRUE), TestData(12, FALSE) }

Builds == { "debug", "release" }

Reads == { "get_raw_page", "get_page" } \cup Borrowing \cup Consuming

\* The records pushed since construction, kept while every call that could
\* change the store was a push that succeeded.
Pushed(op, data, res) ==
  IF op \in Reads THEN last.pushed
  ELSE IF last.pushed.only /\ op \in {"push_raw", "push"} /\ res.kind = OK
       THEN [only |-> TRUE,
             recs |-> Append(last.pushed.recs, [op |-> op, data |-> data])]
       ELSE [only |-> FALSE, recs |-> << >>]

Call(op, page, data, res) ==
  [op |-> op, page |-> page, data |-> data, res |-> res, pre |-> pager,
   after_delete |-> (last.op = "delete" /\ last.res.kind = OK),
   pushed |-> Pushed(op, data, res)]

NoIterator == [kind |-> "none", start |-> 0, pos |-> 0, returned |-> << >>]
NoDelete == [phase |-> "idle", index |-> 0, curr_pos |-> 0, i |-> 0,
             held |-> << >>, drained |-> << >>, written |-> << >>,
             swap0 |-> Pager_new(1, << >>)]

\* No call is running on the primary sink.
NoCall == [obj |-> "none", op |-> "none", page |-> 0, data |-> << >>,
           build |-> "debug"]

\* The RefCell of a sink just handed to Bookworm::new: not borrowed, the
\* position where Pager::new's seek to the end has left it, no second store.
FreshCell(data) ==
  [borrows |-> 0, double |-> FALSE, pos |-> Len(data), call |-> NoCall,
   other |-> [made |-> FALSE, pages_count |-> 0]]

\* The result of a call that has not returned yet.
Running == [kind |-> "running", val |-> << >>]

\* Bookworm::new(page_size, data_source, swap) over two empty cursors.
Init ==
  /\ page_size \in PageSizes
  /\ pager = Pager_new(page_size, <<>>)
  /\ swap = Pager_new(page_size, <<>>)
  /\ panicked = FALSE
  /\ last = [op |-> "new", page |-> 0, data |-> <<>>, res |-> Ok(Unit),
             pre |-> Pager_new(page_size, <<>>), after_delete |-> FALSE,
             pushed |-> [only |-> TRUE, recs |-> << >>]]
  /\ it = NoIterator
  /\ del = NoDelete
  /\ cell = FreshCell(<<>>)

\* ---------------------------------------------------------------- actions
\* A call on the store can be made: the process runs, no iterator borrows or
\* has consumed the store, and no delete is under way.
Idle == ~panicked /\ it.kind = "none" /\ del.phase = "idle"

GetRawPage(page) ==
  /\ Idle
  /\ last' = Call("get_raw_page", page, <<>>, get_raw_page(page_size, pager, page))
  /\ UNCHANGED << page_size, pager, swap, panicked, it, del, cell >>

GetPage(page) ==
  /\ Idle
  /\ last' = Call("get_page", page, <<>>, get_page(page_size, pager, page))
  /\ UNCHANGED << page_size, pager, swap, panicked, it, del, cell >>

WriteRawPage(page, data) ==
  /\ Idle
  /\ LET w == write_raw_page(page_size, pager, page, data)
     IN /\ pager' = w.p
        /\ last' = Call("write_raw_page", page, data, w.res)
  /\ UNCHANGED << page_size, swap, panicked, it, del, cell >>

WritePage(page, v) ==
  /\ Idle
  /\ LET w == write_page(page_size, pager, page, v)
     IN /\ pager' = w.p
        /\ last' = Call("write_page", page, v, w.res)
  /\ UNCHANGED << page_size, swap, panicked, it, del, cell >>

PushRaw(data) ==
  /\ Idle
  /\ pager.pages_count < MaxPages
  /\ LET w == push_raw(page_size, pager, data)
     IN /\ pager' = w.p
        /\ last' = Call("push_raw", pager.pages_count, data, w.res)
  /\ UNCHANGED << page_size, swap, panicked, it, del, cell >>

Push(v) ==
  /\ Idle
  /\ pager.pages_count < MaxPages
  /\ LET w == push(page_size, pager, v)
     IN /\ pager' = w.p
        /\ last' = Call("push", pager.pages_count, v, w.res)
  /\ UNCHANGED << page_size, swap, panicked, it, del, cell >>

Pop(build) ==
  /\ Idle
  /\ LET w == pop(page_size, pager, build)
     IN /\ pager' = w.p
        /\ panicked' = (w.res.kind = Panic)
        /\ last' = Call("pop", 0, <<>>, w.res)
  /\ UNCHANGED << page_size, swap, it, del, cell >>

Delete(page, build) ==
  /\ Idle
  /\ LET d == delete(page_size, pager, swap, page, build)
     IN /\ pager' = d.pager
        /\ swap' = d.swap
        /\ panicked' = (d.res.kind = Panic)
        /\ last' = Call("delete", page, <<>>, d.res)
  /\ UNCHANGED << page_size, it, del, cell >>

\* The Page Store, driven through the facade's delegating calls.
Next ==
  \/ \E page \in Indices : GetRawPage(page)
  \/ \E page \in Indices : GetPage(page)
  \/ \E page \in Indices, data \in RawPayloads(page_size) : WriteRawPage(page, data)
  \/ \E page \in Indices, v \in TestValues : WritePage(page, v)
  \/ \E data \in RawPayloads(page_size) : PushRaw(data)
  \/ \E v \in TestValues : Push(v)
  \/ \E build \in Builds : Pop(build)

Spec == Init /\ [][Next]_vars

\* The facade: appends, remove-last and positional deletes.
FacadeNext ==
  \/ \E data \in RawPayloads(page_size) : PushRaw(data)
  \/ \E build \in Builds : Pop(build)
  \/ \E page \in Indices, build \in Builds : Delete(page, build)

FacadeSpec == Init /\ [][FacadeNext]_vars

\* ---------------------------------------------------------------- iterating
\* The None results among what an iterator has returned.
Nones(returned) == Cardinality({ k \in 1..Len(returned) : returned[k] = << >> })

\* The items it has yielded, in order.
RECURSIVE Items(_)
Items(returned) ==
  IF returned = << >> THEN << >> ELSE Head(returned) \o Items(Tail(returned))

Begin(kind, starting_page, pos) ==
  /\ Idle
  /\ it' = [kind |-> kind, start |-> starting_page, pos |-> pos,
            returned |-> << >>]
  /\ last' = Call(kind, starting_page, <<>>, Ok(Unit))
  /\ UNCHANGED << page_size, pager, swap, panicked, del, cell >>

\* next() is called on the iterator, also after it has returned None, up to
\* MaxNones times.
Step(kind) ==
  /\ it.kind = kind
  /\ Nones(it.returned) < MaxNones
  /\ LET n == Iterator_next(kind, page_size, pager, it.pos)
     IN it' = [it EXCEPT !.pos = n.pos, !.returned = Append(@, n.item)]
  /\ UNCHANGED << page_size, pager, swap, panicked, last, del, cell >>

RawIter(starting_page) == Begin("raw_iter", starting_page, raw_iter(starting_page))
Iter(starting_page) == Begin("iter", starting_page, raw_iter(starting_page))
IntoRawIterator(starting_page) ==
  Begin("into_raw_iterator", starting_page,
        into_raw_iterator(page_size, starting_page))
IntoIterator(starting_page) ==
  Begin("into_iterator", starting_page,
        into_raw_iterator(page_size, starting_page))

RawPagerIterNext == Step("raw_iter")
PagerIterNext == Step("iter")
RawPagerIteratorNext == Step("into_raw_iterator")
PagerIteratorNext == Step("into_iterator")

\* The Page Store, and one iteration over it.  A borrowing iterator holds the
\* store's only mutable borrow and a consuming one has taken the store, so no
\* call on the store is made while the iterator is in use.
IterNext ==
  \/ Next
  \/ \E starting_page \in Indices : RawIter(starting_page)
  \/ \E starting_page \in Indices : Iter(starting_page)
  \/ \E starting_page \in Indices : IntoRawIterator(starting_page)
  \/ \E starting_page \in Indices : IntoIterator(starting_page)
  \/ RawPagerIterNext
  \/ PagerIterNext
  \/ RawPagerIteratorNext
  \/ PagerIteratorNext

IterSpec == Init /\ [][IterNext]_vars

\* ------------------------------------------------------ delete, step by step
\* Bookworm::delete(index) taken one call at a time.  del.held is what the
\* loop body holds in memory outside the two stores: the page next() has
\* returned, until the body has handed it to the other store and dropped it.
\* del.drained and del.written record the transfers of phases 1 and 2.
DeleteBegin(index) ==
  /\ Idle
  /\ del' = [phase |-> "drain", index |-> index, curr_pos |-> raw_iter(index + 1),
             i |-> 0, held |-> << >>, drained |-> << >>, written |-> << >>,
             swap0 |-> swap]
  /\ last' = Call("delete", index, <<>>, Running)
  /\ UNCHANGED << page_size, pager, swap, panicked, it, cell >>

\* The delete returns res; the loop's page, if any, is dropped.  The record
\* of the call keeps the transfers made and the swap store as it was when
\* the call began.
Return(res) ==
  /\ del' = NoDelete
  /\ last' = [op |-> "delete", page |-> del.index, data |-> <<>>, res |-> res,
              pre |-> last.pre, after_delete |-> last.after_delete,
              pushed |-> last.pushed, swap0 |-> del.swap0,
              drained |-> del.drained, written |-> del.written]
  /\ panicked' = (res.kind = Panic)

\* Phase 1, the loop head: next() of pager.raw_iter(index + 1).
DrainNext ==
  /\ del.phase = "drain"
  /\ LET n == RawPagerIter_next(page_size, pager, del.curr_pos)
     IN del' = IF n.item = << >>
               THEN [del EXCEPT !.phase = "restore"]
               ELSE [del EXCEPT !.phase = "drain_push", !.curr_pos = n.pos,
                                !.held = @ \o n.item]
  /\ UNCHANGED << page_size, pager, swap, panicked, last, it, cell >>

\* A variant of the loop body of phase 1 that keeps every page it has pushed.
DrainPushKeepsPage ==
  /\ del.phase = "drain_push"
  /\ LET page == del.held[Len(del.held)]
         w == push_raw(page_size, swap, page)
     IN /\ swap' = w.p
        /\ IF w.res.kind = OK
           THEN /\ del' = [del EXCEPT !.phase = "drain",
                             !.drained = Append(@, [from |-> del.curr_pos - 1,
                                                   page |-> page])]
                /\ UNCHANGED << last, panicked >>
           ELSE Return(w.res)
  /\ UNCHANGED << page_size, pager, it, cell >>

\* Phase 1, the loop body: swap.push_raw(&page)?
DrainPush ==
  /\ del.phase = "drain_push"
  /\ LET page == del.held[Len(del.held)]
         w == push_raw(page_size, swap, page)
     IN /\ swap' = w.p
        /\ IF w.res.kind = OK
           THEN /\ del' = [del EXCEPT !.phase = "drain", !.held = << >>,
                             !.drained = Append(@, [from |-> del.curr_pos - 1,
                                                   page |-> page])]
                /\ UNCHANGED << last, panicked >>
           ELSE Return(w.res)
  /\ UNCHANGED << page_size, pager, it, cell >>

\* Phase 2, the loop head: next() of swap.raw_iter(0).enumerate().
RestoreNext ==
  /\ del.phase = "restore"
  /\ LET n == RawPagerIter_next(page_size, swap, raw_iter(0) + del.i)
     IN del' = IF n.item = << >>
               THEN [del EXCEPT !.phase = "shrink"]
               ELSE [del EXCEPT !.phase = "restore_write", !.held = @ \o n.item]
  /\ UNCHANGED << page_size, pager, swap, panicked, last, it, cell >>

\* Phase 2, the loop body: pager.write_raw_page(index + i, &page)?
RestoreWrite ==
  /\ del.phase = "restore_write"
  /\ LET page == del.held[Len(del.held)]
         w == write_raw_page(page_size, pager, del.index + del.i, page)
     IN /\ pager' = w.p
        /\ IF w.res.kind = OK
           THEN /\ del' = [del EXCEPT !.phase = "restore", !.held = << >>,
                             !.i = @ + 1,
                             !.written = Append(@, [to |-> del.index + del.i,
                                                   page |-> page])]
                /\ UNCHANGED << last, panicked >>
           ELSE Return(w.res)
  /\ UNCHANGED << page_size, swap, it, cell >>

\* Phase 3: pager.pop()?; swap.clear()
Shrink(build) ==
  /\ del.phase = "shrink"
  /\ LET shrunk == pop(page_size, pager, build)
     IN /\ pager' = shrunk.p
        /\ swap' = IF shrunk.res.kind = OK THEN clear(swap) ELSE swap
        /\ Return(shrunk.res)
  /\ UNCHANGED << page_size, it, cell >>

\* The facade with delete taken step by step.
DeleteStepsNext ==
  \/ \E data \in RawPayloads(page_size) : PushRaw(data)
  \/ \E build \in Builds : Pop(build)
  \/ \E index \in Indices : DeleteBegin(index)
  \/ DrainNext
  \/ DrainPush
  \/ RestoreNext
  \/ RestoreWrite
  \/ \E build \in Builds : Shrink(build)

DeleteStepsSpec == Init /\ [][DeleteStepsNext]_vars

\* --------------------------------------------------------------- reopening
\* The facade is released and built again over the same two sinks, as
\* test_push does: Pager::new derives each count from its sink's length.
Reopen ==
  /\ Idle
  /\ pager' = Pager_new(page_size, pager.data)
  /\ swap' = Pager_new(page_size, swap.data)
  /\ last' = Call("new", 0, <<>>, Ok(Unit))
  /\ UNCHANGED << page_size, panicked, it, del, cell >>

ReopenNext ==
  \/ Next
  \/ Reopen

ReopenSpec == Init /\ [][ReopenNext]_vars

\* ------------------------------------------------------- sharing one sink
\* Several owners of one Rc<RefCell<S>>: the primary store, a second store
\* built over a clone of the handle, and an iterator made from the primary
\* store.  Calls run one after another; each is taken in two steps where it
\* borrows the sink: up to self.data_source.borrow_mut(), and from there to
\* its return.

Stores == { "pager", "other" }

\* Inputs of the calls on a shared sink: a payload that fits and one that
\* does not, one record, the indices up to one past the last page.
SharedPayloads(ps) == { <<>>, Fill(ps + 1, 7) }
SharedValues == { TestData(10, TRUE) }
SharedIndices == 0..MaxSharedPages

\* The store an owner calls on; both see the same bytes.
Store(obj) ==
  IF obj = "pager" THEN pager
  ELSE [data |-> pager.data, pages_count |-> cell.other.pages_count]

\* The primary store can be called while no iterator borrows it or has taken
\* it; the second store once it is built.
Callable(obj) == IF obj = "pager" THEN it.kind = "none" ELSE cell.other.made

\* A variant in which a consuming iterator is returned with the borrow its
\* constructor took still held.
held_afterIteratorKeepsBorrow(op) == IF op \in Consuming THEN 1 ELSE 0

\* The mutable borrows a call still holds when it returns: the RefMut is a
\* local of the function, dropped by drop(..) or at the end of its scope.
held_after(op) == 0

\* The call gets as far as borrow_mut(): it has not returned or panicked
\* before.
ReachesBorrow(op, st, page, data, build) ==
  CASE op \in {"get_raw_page", "get_page"} -> page < st.pages_count
    [] op = "write_raw_page" -> page < st.pages_count /\ Len(data) <= page_size
    [] op = "write_page" ->
         page < st.pages_count /\ Len(serialize(data)) <= page_size
    [] op = "push_raw" -> Len(data) <= page_size
    [] op = "push" -> Len(serialize(data)) <= page_size
    [] op = "pop" -> ~(build = "debug" /\ st.pages_count = 0)
    [] op = "next" -> it.kind \in Consuming \/ it.pos < st.pages_count
    [] op \in {"new"} \cup Consuming -> TRUE
    [] OTHER -> FALSE

\* What the call does to the store and what it returns.
Outcome(op, st, page, data, build) ==
  CASE op = "get_raw_page" -> [p |-> st, res |-> get_raw_page(page_size, st, page)]
    [] op = "get_page" -> [p |-> st, res |-> get_page(page_size, st, page)]
    [] op = "write_raw_page" -> write_raw_page(page_size, st, page, data)
    [] op = "write_page" -> write_page(page_size, st, page, data)
    [] op = "push_raw" -> push_raw(page_size, st, data)
    [] op = "push" -> push(page_size, st, data)
    [] op = "pop" -> pop(page_size, st, build)
    [] op = "clear" -> [p |-> clear(st), res |-> Ok(Unit)]

\* Where a call that borrowed the sink leaves the sink's position.
PosAfter(op, st, page) ==
  CASE op \in {"get_raw_page", "get_page"} ->
         IF ReadExactAt(st.data, page_size * page, page_size).kind = OK
         THEN page_size * page + page_size ELSE Len(st.data)
    [] op \in {"write_raw_page", "write_page"} -> page_size * page + page_size
    [] op \in {"push_raw", "push"} -> page_size * st.pages_count + page_size
    [] op = "pop" -> page_size * st.pages_count
    [] op = "new" -> Len(st.data)
    [] op \in Consuming -> into_raw_iterator(page_size, page)

\* A call can start: the process runs and no other call is running.
Free == ~panicked /\ del.phase = "idle" /\ cell.call = NoCall

\* borrow_mut(): the borrow is taken if none is held; if one is, the RefCell
\* panics (BorrowMutError).
Enter(obj, op, page, data, build) ==
  /\ Free
  /\ IF cell.borrows > 0
     THEN /\ cell' = [cell EXCEPT !.double = TRUE]
          /\ panicked' = TRUE
     ELSE /\ cell' = [cell EXCEPT !.borrows = @ + 1,
                        !.call = [obj |-> obj, op |-> op, page |-> page,
                                  data |-> data, build |-> build]]
          /\ UNCHANGED panicked
  /\ UNCHANGED << page_size, pager, swap, last, it, del >>

\* A call on a store returns, with the sink's position at pos and held
\* borrows not released.
Returned(obj, o, pos, held) ==
  /\ pager' = IF obj = "pager" THEN o.p ELSE [pager EXCEPT !.data = o.p.data]
  /\ cell' = [cell EXCEPT !.borrows = held, !.pos = pos, !.call = NoCall,
                !.other.pages_count =
                   IF obj = "other" THEN o.p.pages_count ELSE @]
  /\ it' = IF it.kind \in Consuming THEN [it EXCEPT !.pos = pos] ELSE it
  /\ panicked' = (o.res.kind = Panic)
  /\ UNCHANGED << page_size, swap, last, del >>

\* A call on a store begins; one that returns before borrow_mut() is over at
\* once.
StoreCall(obj, op, page, data, build) ==
  /\ Free
  /\ Callable(obj)
  /\ op \in {"push_raw", "push"} => Store(obj).pages_count < MaxSharedPages
  /\ IF ReachesBorrow(op, Store(obj), page, data, build)
     THEN Enter(obj, op, page, data, build)
     ELSE Returned(obj, Outcome(op, Store(obj), page, data, build),
                   cell.pos, cell.borrows)

SharedGetRawPage(obj, page) == StoreCall(obj, "get_raw_page", page, <<>>, "debug")
SharedGetPage(obj, page) == StoreCall(obj, "get_page", page, <<>>, "debug")
SharedWriteRawPage(obj, page, data) ==
  StoreCall(obj, "write_raw_page", page, data, "debug")
SharedWritePage(obj, page, v) == StoreCall(obj, "write_page", page, v, "debug")
SharedPushRaw(obj, data) == StoreCall(obj, "push_raw", 0, data, "debug")
SharedPush(obj, v) == StoreCall(obj, "push", 0, v, "debug")
SharedPop(obj, build) == StoreCall(obj, "pop", 0, <<>>, build)
SharedClear(obj) == StoreCall(obj, "clear", 0, <<>>, "debug")

\* The rest of a call on a store: its reads and writes, and the return.
LeaveStoreCall ==
  /\ ~panicked
  /\ cell.call.obj \in Stores /\ cell.call.op # "new"
  /\ LET c == cell.call
         st == Store(c.obj)
     IN Returned(c.obj, Outcome(c.op, st, c.page, c.data, c.build),
                 PosAfter(c.op, st, c.page), held_after(c.op))

\* Pager::new(page_size, data_source.clone()): a second store over the sink.
NewOther ==
  /\ ~cell.other.made
  /\ Enter("other", "new", 0, <<>>, "debug")

LeaveNew ==
  /\ ~panicked
  /\ cell.call.op = "new"
  /\ cell' = [cell EXCEPT !.borrows = held_after("new"),
                !.pos = PosAfter("new", pager, 0), !.call = NoCall,
                !.other = [made |-> TRUE,
                           pages_count |->
                             Pager_new(page_size, pager.data).pages_count]]
  /\ it' = IF it.kind \in Consuming
           THEN [it EXCEPT !.pos = PosAfter("new", pager, 0)] ELSE it
  /\ UNCHANGED << page_size, pager, swap, panicked, last, del >>

\* pager.into_raw_iterator(starting_page), pager.into_iterator(starting_page)
SharedIntoRawIterator(starting_page) ==
  /\ Callable("pager")
  /\ Enter("iterator", "into_raw_iterator", starting_page, <<>>, "debug")

SharedIntoIterator(starting_page) ==
  /\ Callable("pager")
  /\ Enter("iterator", "into_iterator", starting_page, <<>>, "debug")

LeaveInto ==
  /\ ~panicked
  /\ cell.call.op \in Consuming
  /\ LET pos == PosAfter(cell.call.op, pager, cell.call.page)
     IN /\ it' = [kind |-> cell.call.op, start |-> cell.call.page,
                  pos |-> pos, returned |-> << >>]
        /\ cell' = [cell EXCEPT !.borrows = held_after(cell.call.op),
                      !.pos = pos, !.call = NoCall]
  /\ UNCHANGED << page_size, pager, swap, panicked, last, del >>

\* pager.raw_iter(starting_page), pager.iter(starting_page): no borrow of the
\* sink is taken.
SharedBorrowingIter(kind, starting_page) ==
  /\ Free
  /\ Callable("pager")
  /\ it' = [kind |-> kind, start |-> starting_page,
            pos |-> raw_iter(starting_page), returned |-> << >>]
  /\ UNCHANGED << page_size, pager, swap, panicked, last, del, cell >>

\* next() on the iterator, at most MaxNones times.  A borrowing
\* iterator past pages_count gets the bounds error of get_raw_page, which
\* comes before borrow_mut().
SharedNext ==
  /\ Free
  /\ it.kind # "none"
  /\ Len(it.returned) < MaxNones
  /\ IF ReachesBorrow("next", pager, 0, <<>>, "debug")
     THEN Enter("iterator", "next", 0, <<>>, "debug")
     ELSE /\ it' = [it EXCEPT !.returned = Append(@, << >>)]
          /\ UNCHANGED << page_size, pager, swap, panicked, last, del, cell >>

LeaveNext ==
  /\ ~panicked
  /\ cell.call.op = "next"
  /\ LET n == Iterator_next(it.kind, page_size, pager, it.pos)
         pos == IF it.kind \in Consuming THEN n.pos
                ELSE PosAfter("get_raw_page", pager, it.pos)
     IN /\ it' = [it EXCEPT !.pos = n.pos, !.returned = Append(@, n.item)]
        /\ cell' = [cell EXCEPT !.borrows = held_after("next"), !.pos = pos,
                      !.call = NoCall]
  /\ UNCHANGED << page_size, pager, swap, panicked, last, del >>

\* A borrowing iterator is dropped; the primary store can be called again.
DropIter ==
  /\ Free
  /\ it.kind \in Borrowing
  /\ it' = NoIterator
  /\ UNCHANGED << page_size, pager, swap, panicked, last, del, cell >>

SharedSinkNext ==
  \/ \E obj \in Stores, page \in SharedIndices : SharedGetRawPage(obj, page)
  \/ \E obj \in Stores, page \in SharedIndices : SharedGetPage(obj, page)
  \/ \E obj \in Stores, page \in SharedIndices, data \in SharedPayloads(page_size) :
       SharedWriteRawPage(obj, page, data)
  \/ \E obj \in Stores, page \in SharedIndices, v \in SharedValues :
       SharedWritePage(obj, page, v)
  \/ \E obj \in Stores, data \in SharedPayloads(page_size) : SharedPushRaw(obj, data)
  \/ \E obj \in Stores, v \in SharedValues : SharedPush(obj, v)
  \/ \E obj \in Stores, build \in Builds : SharedPop(obj, build)
  \/ \E obj \in Stores : SharedClear(obj)
  \/ LeaveStoreCall
  \/ NewOther
  \/ LeaveNew
  \/ \E starting_page \in SharedIndices : SharedIntoRawIterator(starting_page)
  \/ \E starting_page \in SharedIndices : SharedIntoIterator(starting_page)
  \/ LeaveInto
  \/ \E kind \in Borrowing, starting_page \in SharedIndices :
       SharedBorrowingIter(kind, starting_page)
  \/ SharedNext
  \/ LeaveNext
  \/ DropIter

SharedSpec == Init /\ [][SharedSinkNext]_vars

\* ----------------------------------------------------------------- claims
\* What a raw page holds after a payload no longer than the page is written.
Padded(data) == data \o Zeros(page_size - Len(data))

\* Every index below pages_count can be read: the store holds that many pages.
HoldsPages(p) ==
  \A j \in 0..(p.pages_count - 1) : get_raw_page(page_size, p, j).kind = OK

IsPush == last.op \in {"push_raw", "push"}
IsWrite == last.op \in {"write_raw_page", "write_page"}
PayloadLen == IF last.op \in {"push", "write_page"} THEN Len(serialize(last.data))
              ELSE Len(last.data)

\* C1: delete(i) on a store that holds n pages, i < n, succeeds; afterwards
\* pages_count = n-1, the pages below i are as they were and every page from
\* i on is the page that was one index higher.
C1_DeleteShiftsTail ==
  (last.op = "delete" /\ HoldsPages(last.pre) /\ last.page < last.pre.pages_count)
    => /\ last.res.kind = OK
       /\ pager.pages_count = last.pre.pages_count - 1
       /\ \A j \in 0..(last.pre.pages_count - 2) :
             /\ get_raw_page(page_size, pager, j).kind = OK
             /\ get_raw_page(page_size, pager, j)
                  = get_raw_page(page_size, last.pre,
                                 IF j < last.page THEN j ELSE j + 1)

\* C1 witness: the first of three pages, the later two different, was deleted
\* and the two moved down in order.
C1_Witness ==
  /\ last.op = "delete" /\ last.res.kind = OK /\ last.page = 0
  /\ last.pre.pages_count = 3 /\ HoldsPages(last.pre)
  /\ get_raw_page(page_size, last.pre, 1) # get_raw_page(page_size, last.pre, 2)
  /\ get_raw_page(page_size, pager, 0) = get_raw_page(page_size, last.pre, 1)
  /\ get_raw_page(page_size, pager, 1) = get_raw_page(page_size, last.pre, 2)

C3_PushAppends ==
  (IsPush /\ last.res.kind = OK)
    => /\ pager.pages_count = last.pre.pages_count + 1
       /\ last.op = "push_raw" =>
             get_raw_page(page_size, pager, last.pre.pages_count) = Ok(Padded(last.data))
       /\ last.op = "push" =>
             get_page(page_size, pager, last.pre.pages_count) = Ok(last.data)
       /\ \A j \in 0..(last.pre.pages_count - 1) :
             get_raw_page(page_size, pager, j) = get_raw_page(page_size, last.pre, j)

\* C4: a push that fails leaves pages_count as it was.
C4_FailedPushKeepsCount ==
  (IsPush /\ last.res.kind # OK) => pager.pages_count = last.pre.pages_count

\* C5: pop on an empty store returns an error, leaves pages_count at 0 and
\* the stream as it was; pages_count never wraps.
C5_PopUnderflowIsClean ==
  /\ (last.op = "pop" /\ last.pre.pages_count = 0)
       => /\ last.res.kind \notin {OK, Panic}
          /\ ~panicked
          /\ pager = last.pre
  /\ pager.pages_count <= MaxPages

\* C6: pop on a store with pages_count = n > 0 leaves pages_count = n-1, the
\* bytes of slot n-1 zero, every page below n-1 as it was, and get(n-1)
\* failing with PageNotFound.
C6_PopDropsLast ==
  (last.op = "pop" /\ last.pre.pages_count > 0)
    => /\ last.res.kind = OK
       /\ pager.pages_count = last.pre.pages_count - 1
       /\ ReadExactAt(pager.data, page_size * pager.pages_count, page_size)
            = Ok(Zeros(page_size))
       /\ \A j \in 0..(pager.pages_count - 1) :
             get_raw_page(page_size, pager, j) = get_raw_page(page_size, last.pre, j)
       /\ get_raw_page(page_size, pager, pager.pages_count) = Err(PageNotFound)

\* C7: get_raw(index) fails with PageNotFound when index >= pages_count, and
\* otherwise returns the page_size bytes at offset index*page_size; the store
\* is not changed.
C7_GetRawBoundsAndBytes ==
  (last.op = "get_raw_page")
    => /\ pager = last.pre
       /\ last.page >= pager.pages_count => last.res = Err(PageNotFound)
       /\ last.page < pager.pages_count =>
             /\ last.res.kind = OK
             /\ Len(last.res.val) = page_size
             /\ \A k \in 1..page_size :
                   last.res.val[k] = pager.data[page_size * last.page + k]

C9_OversizeWriteRejected ==
  (IsWrite /\ last.page < last.pre.pages_count /\ PayloadLen > page_size)
    => /\ last.res = Err(PageTooLarge)
       /\ pager = last.pre

\* C9 witness: an oversize write aimed at a slot that holds a non-zero page.
C9_Witness ==
  /\ IsWrite /\ last.res = Err(PageTooLarge)
  /\ last.page < last.pre.pages_count
  /\ get_raw_page(page_size, last.pre, last.page).kind = OK
  /\ get_raw_page(page_size, last.pre, last.page) # Ok(Zeros(page_size))

\* C9 witness for the typed write: the record's encoding exceeds the page.
C9_WitnessTyped ==
  /\ last.op = "write_page" /\ last.res = Err(PageTooLarge)
  /\ last.page < last.pre.pages_count

\* C10: after a write that succeeds at index i, get_raw(i) is the payload
\* followed by zero bytes up to page_size, and get_typed(i) is the record
\* that was written.
C10_WriteGetRoundTrip ==
  (IsWrite /\ last.res.kind = OK)
    => /\ last.op = "write_raw_page" =>
             get_raw_page(page_size, pager, last.page) = Ok(Padded(last.data))
       /\ last.op = "write_page" =>
             get_page(page_size, pager, last.page) = Ok(last.data)

\* C10 witness: a payload shorter than the page replaced a page whose last
\* byte was not zero.
C10_Witness ==
  /\ last.op = "write_raw_page" /\ last.res.kind = OK
  /\ Len(last.data) < page_size
  /\ get_raw_page(page_size, last.pre, last.page).kind = OK
  /\ get_raw_page(page_size, last.pre, last.page).val[page_size] # 0

\* C10 witness for the typed write.
C10_WitnessTyped ==
  /\ last.op = "write_page" /\ last.res.kind = OK
  /\ get_raw_page(page_size, last.pre, last.page).kind = OK
  /\ get_page(page_size, last.pre, last.page) # Ok(last.data)

\* The page a pushed record occupies, and the value a typed iteration gives
\* for it.
RecordPage(rec) ==
  IF rec.op = "push" THEN Padded(serialize(rec.data)) ELSE Padded(rec.data)

Typed == { "iter", "into_iterator" }

\* What an iteration of the given kind from page 0 is to yield for the
\* records pushed.
Expected(kind, recs) ==
  [k \in 1..Len(recs) |->
     IF kind \in Typed THEN recs[k].data ELSE RecordPage(recs[k])]

\* C11: after records r0..r(N-1) were pushed into an empty store and nothing
\* else was done to it, an iteration from page 0 of any of the four kinds
\* (typed ones over records pushed typed) returns r0..r(N-1) in that order
\* and None on every call after them.
C11_IterationOrder ==
  ( /\ it.kind # "none" /\ it.start = 0 /\ last.pushed.only
    /\ it.kind \in Typed
         => \A k \in 1..Len(last.pushed.recs) : last.pushed.recs[k].op = "push" )
    => /\ Len(Items(it.returned)) <= Len(last.pushed.recs)
       /\ \A k \in 1..Len(it.returned) :
            it.returned[k] = IF k <= Len(last.pushed.recs)
                             THEN << Expected(it.kind, last.pushed.recs)[k] >>
                             ELSE << >>

\* C11 witness: three records, not all equal, were pushed typed; a consuming
\* typed iteration from 0 returned the three and then None twice.
C11_Witness ==
  /\ it.kind = "into_iterator" /\ it.start = 0 /\ last.pushed.only
  /\ Len(last.pushed.recs) = 3
  /\ \A k \in 1..3 : last.pushed.recs[k].op = "push"
  /\ last.pushed.recs[1].data # last.pushed.recs[2].data
  /\ Len(it.returned) = 3 + MaxNones
  /\ Items(it.returned) = Expected("into_iterator", last.pushed.recs)

\* C11 witness, borrowing raw: two raw records and a typed one were pushed
\* and the iteration returned their three pages, then None.
C11_WitnessBorrowingRaw ==
  /\ it.kind = "raw_iter" /\ it.start = 0 /\ last.pushed.only
  /\ Len(last.pushed.recs) = 3
  /\ last.pushed.recs[1].op = "push_raw" /\ last.pushed.recs[3].op = "push"
  /\ Nones(it.returned) >= 1
  /\ Items(it.returned) = Expected("raw_iter", last.pushed.recs)

\* C12: in every state of the store and for every starting page, a borrowing
\* raw iteration and a consuming raw iteration from that page end after the
\* same number of pages and yield the same pages.
C12_SameTermination ==
  /\ (it.kind = "raw_iter" /\ Nones(it.returned) >= 1)
       => Items(it.returned)
            = Collect("into_raw_iterator", page_size, pager,
                      into_raw_iterator(page_size, it.start))
  /\ (it.kind = "into_raw_iterator" /\ Nones(it.returned) >= 1)
       => Items(it.returned)
            = Collect("raw_iter", page_size, pager, raw_iter(it.start))

\* C13: after any sequence of calls, a store built anew over the same stream
\* has pages_count = floor(stream length / page_size), the same pages_count
\* as the instance before it and the same pages.
C13_ReopenStable ==
  last.op = "new"
    => /\ pager.pages_count = Len(pager.data) \div page_size
       /\ pager.pages_count = last.pre.pages_count
       /\ \A j \in 0..(last.pre.pages_count - 1) :
            get_raw_page(page_size, pager, j)
              = get_raw_page(page_size, last.pre, j)

\* C13, amended: a store built anew over the same stream has pages_count =
\* floor(stream length / page_size).  When the instance before it counted
\* exactly the pages the stream holds, the new one has the same count and the
\* same pages; when it counted fewer (a pop or a delete drops a slot and
\* leaves it in the stream), the new one counts the dropped slots again,
\* after the pages the old one had; when it counted more (a push that failed
\* counts a slot it did not write), the new one counts fewer.
C13_ReopenStableWhenFull ==
  last.op = "new"
    => /\ pager.pages_count = Len(pager.data) \div page_size
       /\ pager.data = last.pre.data
       /\ last.pre.pages_count * page_size = Len(last.pre.data)
            => /\ pager.pages_count = last.pre.pages_count
               /\ \A j \in 0..(last.pre.pages_count - 1) :
                    /\ get_raw_page(page_size, pager, j).kind = OK
                    /\ get_raw_page(page_size, pager, j)
                         = get_raw_page(page_size, last.pre, j)
       /\ last.pre.pages_count * page_size < Len(last.pre.data)
            => /\ pager.pages_count > last.pre.pages_count
               /\ \A j \in 0..(last.pre.pages_count - 1) :
                    get_raw_page(page_size, pager, j)
                      = get_raw_page(page_size, last.pre, j)
       /\ last.pre.pages_count * page_size > Len(last.pre.data)
            => pager.pages_count < last.pre.pages_count

\* C13 witness: a store of three pages, not all equal, filling its stream
\* was built anew and has the same three pages.
C13_Witness ==
  /\ last.op = "new" /\ last.pre.pages_count = 3
  /\ Len(last.pre.data) = 3 * page_size
  /\ pager = last.pre
  /\ get_raw_page(page_size, pager, 0) # get_raw_page(page_size, pager, 2)

\* C13 witness: a store that had dropped a slot was built anew and counts it
\* again.
C13_WitnessDropped ==
  /\ last.op = "new" /\ last.pre.pages_count = 1
  /\ Len(last.pre.data) = 2 * page_size
  /\ pager.pages_count = 2

\* C14: an indexed write (raw or typed) that succeeds at i < pages_count
\* leaves pages_count as it was and, for every j # i below pages_count, the
\* result of get_raw(j) as it was.
C14_WriteChangesOneSlot ==
  (IsWrite /\ last.res.kind = OK /\ last.page < last.pre.pages_count)
    => /\ pager.pages_count = last.pre.pages_count
       /\ \A j \in 0..(last.pre.pages_count - 1) :
            j # last.page
              => get_raw_page(page_size, pager, j)
                   = get_raw_page(page_size, last.pre, j)

\* The k-th call of next() of the typed iteration in use came after k-1
\* records and met a page that can be read and does not decode.
MeetsUndecodable(k) ==
  /\ \A h \in 1..(k - 1) : it.returned[h] # << >>
  /\ it.kind = "iter" => it.start + k - 1 < pager.pages_count
  /\ LET buf == ReadExactAt(pager.data, page_size * (it.start + k - 1), page_size)
     IN buf.kind = OK /\ deserialize(buf.val).kind # OK

\* C18: in a typed iteration, borrowing or consuming, the call of next() that
\* reads a page which does not decode returns None, and so does every later
\* call on that iterator.
C18_DecodeFailureEnds ==
  it.kind \in Typed
    => \A k \in 1..Len(it.returned) :
         MeetsUndecodable(k)
           => \A h \in k..Len(it.returned) : it.returned[h] = << >>

\* The pages of a record of transfers, in order.
PagesOf(transfers) == [k \in 1..Len(transfers) |-> transfers[k].page]

\* C15: the swap store's pages_count is zero after every delete that has
\* completed and when every delete begins, and phase 2 of a delete writes
\* back the pages its own phase 1 drained, in that order, and no page that an
\* earlier delete left in the swap's bytes.
C15_SwapCountZeroBetweenDeletes ==
  /\ (last.op = "delete" /\ del.phase = "idle" /\ last.res.kind = OK)
       => /\ swap.pages_count = 0
          /\ PagesOf(last.written) = PagesOf(last.drained)
  /\ (del.phase # "idle")
       => /\ del.swap0.pages_count = 0
          /\ Len(del.written) <= Len(del.drained)
          /\ \A k \in 1..Len(del.written) :
               del.written[k].page = del.drained[k].page
          /\ del.phase = "restore_write"
               => /\ Len(del.written) < Len(del.drained)
                  /\ del.held = << del.drained[Len(del.written) + 1].page >>

\* C15 witness: a delete completed whose swap store began with two stale
\* pages in its bytes, drained one page and wrote that page back; the stale
\* page behind it is another page.
C15_Witness ==
  /\ last.op = "delete" /\ del.phase = "idle" /\ last.res.kind = OK
  /\ Len(last.swap0.data) = 2 * page_size
  /\ Len(last.drained) = 1 /\ Len(last.written) = 1
  /\ ReadExactAt(swap.data, page_size, page_size) # Ok(last.drained[1].page)
  /\ swap.pages_count = 0

\* C16: delete(index) on a store with pages_count = 0 returns an error and
\* leaves the primary store and the swap store, counts and streams, as they
\* were (both counts 0).
C16_DeleteOnEmptyIsClean ==
  (last.op = "delete" /\ del.phase = "idle" /\ last.pre.pages_count = 0)
    => /\ last.res.kind \notin {OK, Panic}
       /\ ~panicked
       /\ pager = last.pre /\ pager.pages_count = 0
       /\ swap = last.swap0 /\ swap.pages_count = 0

\* C17: at every step of a delete at most one page is held in memory outside
\* the two stores, however long the tail is.
C17_OnePageHeld == Len(del.held) <= 1

\* C17 witness: deleting page 0 of three, the first page of the tail is in
\* the swap store and the second is the one page held.
C17_Witness ==
  /\ del.phase = "drain_push" /\ del.index = 0
  /\ last.pre.pages_count = 3 /\ HoldsPages(last.pre)
  /\ Len(del.drained) = 1 /\ swap.pages_count = 1
  /\ del.held = << get_raw_page(page_size, pager, 2).val >>

\* C17 witness, phase 2: the first page is back in the primary store and the
\* second is the one page held.
C17_WitnessRestore ==
  /\ del.phase = "restore_write" /\ del.index = 0
  /\ Len(del.drained) = 2 /\ Len(del.written) = 1
  /\ del.held = << del.drained[2].page >>

C19_WitnessLast ==
  /\ last.op = "delete" /\ del.phase = "idle" /\ last.res.kind = OK
  /\ last.page = 1 /\ last.pre.pages_count = 2 /\ HoldsPages(last.pre)
  /\ last.drained = << >> /\ last.written = << >>
  /\ pager.pages_count = 1

\* C20: after any sequence of calls, those that returned an error included,
\* pages_count * page_size is at most the length of the stream, and so
\* get_raw(i) does not fail on a short read for any i < pages_count.
C20_CountWithinStream ==
  /\ pager.pages_count * page_size <= Len(pager.data)
  /\ \A i \in 0..(pager.pages_count - 1) :
       get_raw_page(page_size, pager, i).kind # ReadFailure

\* C21: delete(index) with index >= pages_count on a store that is not empty
\* removes no page: afterwards pages_count is as it was and so is the page
\* get_raw(j) returns, for every j below pages_count.
C21_DeleteOutOfRangeRemovesNothing ==
  ( /\ last.op = "delete" /\ del.phase = "idle"
    /\ last.pre.pages_count > 0 /\ last.page >= last.pre.pages_count )
    => /\ pager.pages_count = last.pre.pages_count
       /\ \A j \in 0..(last.pre.pages_count - 1) :
            get_raw_page(page_size, pager, j)
              = get_raw_page(page_size, last.pre, j)

\* C22: every call on a store and every call of next() takes the mutable
\* borrow of the sink when none is held and gives it back before it returns:
\* however the calls of two stores and an iterator over one sink follow one
\* another, at most one mutable borrow is held, none between calls, and the
\* panic of a second borrow_mut() is never reached.
C22_OneMutableBorrow ==
  /\ cell.borrows <= 1
  /\ ~cell.double
  /\ cell.call = NoCall => cell.borrows = 0
  /\ cell.call # NoCall => cell.borrows = 1

\* C22 witness: a consuming iterator made from the primary store has
\* returned a page, and a write of the second store, built over the same
\* sink, holds the one borrow.
C22_Witness ==
  /\ it.kind = "into_raw_iterator" /\ Items(it.returned) # << >>
  /\ cell.other.made
  /\ cell.call.obj = "other" /\ cell.call.op = "write_raw_page"
  /\ cell.borrows = 1

\* C22 witness: next() of the consuming iterator holds the one borrow after
\* a call of the second store has returned and moved the sink's position.
C22_WitnessNext ==
  /\ it.kind = "into_iterator" /\ cell.call.op = "next" /\ cell.borrows = 1
  /\ cell.other.made /\ cell.other.pages_count = 1
  /\ cell.pos = page_size /\ it.start = 0 /\ Len(it.returned) = 1

\* Taken step by step, a delete ends as the delete taken at once does.
StepsAgree ==
  (last.op = "delete" /\ del.phase = "idle")
    => \E build \in Builds :
         LET d == delete(page_size, last.pre, last.swap0, last.page, build)
         IN d.pager = pager /\ d.swap = swap /\ d.res = last.res

=============================================================================
